---- MODULE Spec2Model ----
(***************************************************************************)
(* Model of the OG Drawing Intelligence API (src/main.py): the upload      *)
(* handler, the filename tag extraction, the filetype classifier and the   *)
(* document generator, over the four collections of the document store     *)
(* and the local upload directory.                                         *)
(*                                                                         *)
(* Python strings whose characters matter (filenames, labels, paths) are   *)
(* sequences of one-character strings; enumeration-like strings (kinds,    *)
(* doc types, project ids, filetypes) are TLA+ strings.                    *)
(***************************************************************************)
EXTENDS Integers, Sequences, FiniteSets, TLC

\* ------------------------------------------------------------------------
\* Characters and the str methods the handlers use
\* ------------------------------------------------------------------------

\* Printable ASCII in code point order, starting at code point 32 (the grave
\* accent, code point 96, is written <grave>: the lexer rejects it in a string).
Ascii ==
  << " ", "!", "\"", "#", "$", "%", "&", "'", "(", ")", "*", "+", ",", "-", ".", "/",
     "0", "1", "2", "3", "4", "5", "6", "7", "8", "9", ":", ";", "<", "=", ">", "?",
     "@", "A", "B", "C", "D", "E", "F", "G", "H", "I", "J", "K", "L", "M", "N", "O",
     "P", "Q", "R", "S", "T", "U", "V", "W", "X", "Y", "Z", "[", "\\", "]", "^", "_",
     "<grave>", "a", "b", "c", "d", "e", "f", "g", "h", "i", "j", "k", "l", "m", "n", "o",
     "p", "q", "r", "s", "t", "u", "v", "w", "x", "y", "z", "{", "|", "}", "~" >>

\* ord(c): the code point of a character.
CodePoint == [c \in {Ascii[i] : i \in 1..Len(Ascii)} |-> 31 + CHOOSE i \in 1..Len(Ascii) : Ascii[i] = c]
Ord(c) == CodePoint[c]

IsUpperLetter(c) == Ord(c) >= 65 /\ Ord(c) <= 90
IsLowerLetter(c) == Ord(c) >= 97 /\ Ord(c) <= 122
IsDigit(c) == Ord(c) >= 48 /\ Ord(c) <= 57
\* \w of the re module: letters, digits and the underscore.
IsWordChar(c) == IsUpperLetter(c) \/ IsLowerLetter(c) \/ IsDigit(c) \/ c = "_"

\* str.upper() and str.lower(), character by character.
upper(s) == [i \in 1..Len(s) |-> IF IsLowerLetter(s[i]) THEN Ascii[Ord(s[i]) - 31 - 32] ELSE s[i]]
lower(s) == [i \in 1..Len(s) |-> IF IsUpperLetter(s[i]) THEN Ascii[Ord(s[i]) - 31 + 32] ELSE s[i]]

\* s < t for Python strings: lexicographic by code point, a proper prefix first.
RECURSIVE StrLess(_, _)
StrLess(s, t) ==
  IF t = <<>> THEN FALSE
  ELSE IF s = <<>> THEN TRUE
  ELSE IF Ord(Head(s)) # Ord(Head(t)) THEN Ord(Head(s)) < Ord(Head(t))
  ELSE StrLess(Tail(s), Tail(t))

\* sorted(S) for a set of strings: ascending, one entry per element.
RECURSIVE sorted(_)
sorted(S) ==
  IF S = {} THEN <<>>
  ELSE LET m == CHOOSE x \in S : \A y \in S \ {x} : StrLess(x, y)
       IN  <<m>> \o sorted(S \ {m})

\* s.split(sep) for a one-character separator: the segments between separators.
RECURSIVE split(_, _)
split(s, sep) ==
  IF \A i \in 1..Len(s) : s[i] # sep THEN <<s>>
  ELSE LET k == CHOOSE i \in 1..Len(s) : s[i] = sep /\ \A j \in 1..(i - 1) : s[j] # sep
       IN  <<SubSeq(s, 1, k - 1)>> \o split(SubSeq(s, k + 1, Len(s)), sep)

\* ------------------------------------------------------------------------
\* guess_filetype
\* ------------------------------------------------------------------------

\* The extension table of guess_filetype, as (extension, filetype) pairs.
mapping ==
  { << <<"p","d","f">>, "pdf" >>, << <<"d","x","f">>, "dxf" >>, << <<"d","w","g">>, "dwg" >>,
    << <<"t","i","f","f">>, "tiff" >>, << <<"t","i","f">>, "tiff" >>,
    << <<"s","t","e","p">>, "step" >>, << <<"s","t","p">>, "step" >>,
    << <<"i","f","c">>, "ifc" >>, << <<"o","b","j">>, "obj" >>,
    << <<"n","w","d">>, "nwd" >>, << <<"n","w","c">>, "nwc" >> }

\* mapping.get(ext, "other")
mapping_get(ext) ==
  IF \E e \in mapping : e[1] = ext
  THEN (CHOOSE e \in mapping : e[1] = ext)[2]
  ELSE "other"

guess_filetype(filename) ==
  LET parts == split(filename, ".")
      ext   == lower(parts[Len(parts)])
  IN  mapping_get(ext)

\* ------------------------------------------------------------------------
\* TAG_PATTERN = \b([A-Z]{1,3}-?\d{1,4}[A-Z]?)\b and TAG_PATTERN.findall
\* ------------------------------------------------------------------------

\* \b at offset i of s (between s[i] and s[i+1]): exactly one side is a word
\* character; beyond either end of the string counts as a non-word character.
WordBoundary(s, i) ==
  LET before == i >= 1 /\ IsWordChar(s[i])
      after  == i + 1 <= Len(s) /\ IsWordChar(s[i + 1])
  IN  before # after

\* The ways the pattern can match s from offset i: <<nL, h, nD, t>> letters,
\* hyphens (0 or 1), digits, trailing letters (0 or 1).
TagMatches(s, i) ==
  { m \in (1..3) \X (0..1) \X (1..4) \X (0..1) :
      LET nL == m[1]
          h  == m[2]
          nD == m[3]
          t  == m[4]
          e  == i + nL + h + nD + t
      IN  /\ e <= Len(s)
          /\ WordBoundary(s, i)
          /\ \A j \in (i + 1)..(i + nL) : IsUpperLetter(s[j])
          /\ h = 1 => s[i + nL + 1] = "-"
          /\ \A j \in (i + nL + h + 1)..(i + nL + h + nD) : IsDigit(s[j])
          /\ t = 1 => IsUpperLetter(s[e])
          /\ WordBoundary(s, e) }

\* The match the backtracking engine reports among them: every quantifier is
\* greedy, so the first success takes the most letters, then the hyphen, then
\* the most digits, then the trailing letter.
Preference(m) == ((m[1] * 2 + m[2]) * 5 + m[3]) * 2 + m[4]

\* The end offset of the match at offset i, or -1 when the pattern fails there.
TagMatchEnd(s, i) ==
  LET ms == TagMatches(s, i)
  IN  IF ms = {} THEN -1
      ELSE LET m == CHOOSE x \in ms : \A y \in ms : Preference(y) <= Preference(x)
           IN  i + m[1] + m[2] + m[3] + m[4]

\* findall scanning from offset i: leftmost match first, the scan resumes at
\* the end of each match, so matches never overlap.
RECURSIVE FindallFrom(_, _)
FindallFrom(s, i) ==
  IF i >= Len(s) THEN <<>>
  ELSE LET e == TagMatchEnd(s, i)
       IN  IF e = -1 THEN FindallFrom(s, i + 1)
           ELSE <<SubSeq(s, i + 1, e)>> \o FindallFrom(s, e)

\* findall with each match reported once, at its first appearance.
TAG_PATTERN_findall_unique(s) ==
  LET all  == FindallFrom(s, 0)
      keep == {i \in 1..Len(all) : \A j \in 1..(i - 1) : all[j] # all[i]}
  IN  [k \in 1..Cardinality(keep) |->
         all[CHOOSE i \in keep : Cardinality({j \in keep : j <= i}) = k]]

TAG_PATTERN_findall(s) == FindallFrom(s, 0)

\* ------------------------------------------------------------------------
\* Bounds and inputs
\* ------------------------------------------------------------------------

\* Requests accepted in one behaviour.
MaxCalls == 2

\* limit of the get_documents call of generate_document.
GenLimit == 5000

\* The request slots: two handlers can be in flight at once.
Reqs == {1, 2}

None == "None"

Projects == {"p1", "p2"}

\* "V203 P-101 p-101.pdf": three matches, one repeated, out of sorted order.
NameTags ==
  <<"V","2","0","3"," ","P","-","1","0","1"," ","p","-","1","0","1",".","p","d","f">>
\* "A1_B2.TIF": no match (the underscore is a word character, so no \b).
NameNoTag == <<"A","1","_","B","2",".","T","I","F">>
\* "a/b.pdf": a name with a path separator.
NameSlash == <<"a","/","b",".","p","d","f">>

\* The upload requests made: <<project_id, filename, bytes>>.
Uploads ==
  { <<"p1", NameTags, <<7>> >>, <<"p1", NameTags, <<8, 9>> >>,
    <<"p2", NameNoTag, <<8, 9>> >>, <<"p1", NameSlash, <<7>> >> }

DocTypes == {"tag-index", "bom", "summary", "invalid"}

\* The upload requests made to the whole API.
ApiUploads == { <<"p1", NameTags, <<7>> >>, <<"p2", NameNoTag, <<8, 9>> >> }

\* The project_id query parameter of the list requests made: absent, or p1.
ListProjectIds == {None, "p1"}

\* The generation requests made: <<project_id, doc_type>>.
Generations == Projects \X DocTypes

ProjectNames == {<<"R","i","g">>}

\* Filenames a stand-alone guess_filetype call is given: a stem, then with or
\* without a dot, then an extension of the table, its upper case, or another.
Stems == {<<>>, <<"a">>, <<"a",".","b">>, <<"d","/">>}
Extensions ==
  LET known == { <<"p","d","f">>, <<"d","x","f">>, <<"d","w","g">>, <<"t","i","f","f">>,
                 <<"t","i","f">>, <<"s","t","e","p">>, <<"s","t","p">>, <<"i","f","c">>,
                 <<"o","b","j">>, <<"n","w","d">>, <<"n","w","c">> }
  IN  known \cup {upper(e) : e \in known}
        \cup {<<>>, <<"t","x","t">>, <<"p","d">>, <<"P","d","F">>, <<"p","d","f","x">>}
FiletypeInputs ==
  {stem \o dot \o ext : stem \in Stems, dot \in {<<>>, <<".">>}, ext \in Extensions}

\* Labels other producers store: "V203", "P-101", "B7", "B10", "".
LabelV203 == <<"V","2","0","3">>
LabelP101 == <<"P","-","1","0","1">>
LabelB7 == <<"B","7">>
LabelB10 == <<"B","1","0">>

\* ------------------------------------------------------------------------
\* State
\* ------------------------------------------------------------------------

VARIABLES
  project,          \* the "project" collection, in insertion order
  upload,           \* the "upload" collection
  extractionitem,   \* the "extractionitem" collection
  documentdraft,    \* the "documentdraft" collection
  next_id,          \* the next identifier the store assigns
  files,            \* the upload directory: path -> bytes
  uuids,            \* how many UUIDs uuid4 has handed out
  calls,            \* requests accepted so far
  produced,         \* ExtractionItems other producers have stored so far
  pc,               \* per request slot: where its handler stands
  loc,              \* per request slot: the handler's local variables
  resp,             \* per request slot: the response, once there is one
  filename,         \* argument of a stand-alone guess_filetype call
  filetype          \* its result

store == <<project, upload, extractionitem, documentdraft>>
vars == <<project, upload, extractionitem, documentdraft, next_id, files, uuids,
          calls, produced, pc, loc, resp, filename, filetype>>

\* ------------------------------------------------------------------------
\* The storage collaborator (database.py)
\* ------------------------------------------------------------------------

\* create_document(collection_name, data): the collection with the record
\* appended under a new identifier; the identifier is what the call returns.
create_document(collection, data, id) == Append(collection, [_id |-> id] @@ data)

\* get_documents(collection_name, filter, limit): the first limit records
\* that have every field of the filter with the filter's value, in the
\* collection's order; the empty filter {} is the empty function.
get_documents(collection, filter, limit) ==
  LET found == SelectSeq(collection,
                 LAMBDA d : \A f \in DOMAIN filter : f \in DOMAIN d /\ d[f] = filter[f])
  IN  IF Len(found) <= limit THEN found ELSE SubSeq(found, 1, limit)

\* ------------------------------------------------------------------------
\* Files
\* ------------------------------------------------------------------------

STORAGE_DIR == <<".","/","u","p","l","o","a","d","s">>

\* The directories that exist: os.makedirs(STORAGE_DIR) at import; no handler
\* creates another.
Directories == {STORAGE_DIR}

\* str(uuid.uuid4()): 36 characters, 8-4-4-4-12 hexadecimal digits, version
\* digit 4; the n-th value handed out differs from every earlier one.
uuid4(n) ==
  [i \in 1..36 |->
     IF i \in {9, 14, 19, 24} THEN "-"
     ELSE IF i = 15 THEN "4"
     ELSE IF i = 35 THEN Ascii[17 + ((n \div 10) % 10)]
     ELSE IF i = 36 THEN Ascii[17 + (n % 10)]
     ELSE "0"]

\* The stored name without the generated identifier.
safe_name_plain(fid, name) == name

\* safe_name = f"{fid}_{file.filename}"
safe_name(fid, name) == fid \o <<"_">> \o name

\* os.path.join(a, b)
os_path_join(a, b) ==
  IF b # <<>> /\ b[1] = "/" THEN b
  ELSE IF a = <<>> \/ a[Len(a)] = "/" THEN a \o b
  ELSE a \o <<"/">> \o b

\* The directory part of a path: what precedes its last "/".
dirname(path) ==
  LET seps == {i \in 1..Len(path) : path[i] = "/"}
  IN  IF seps = {} THEN <<>>
      ELSE SubSeq(path, 1, (CHOOSE i \in seps : \A j \in seps : j <= i) - 1)

\* open(path, "wb") succeeds when the directory of path exists.
can_open(path) == dirname(path) \in Directories

\* The directory after path holds bytes.
put_file(fs, path, bytes) ==
  [q \in DOMAIN fs \cup {path} |-> IF q = path THEN bytes ELSE fs[q]]

\* os.path.getsize(path)
getsize(fs, path) == Len(fs[path])

\* ------------------------------------------------------------------------
\* Initial states
\* ------------------------------------------------------------------------

Idle == [op |-> "none"]
NoResponse == [status |-> 0]

\* The process has started on an empty database and an empty upload directory.
Init ==
  /\ project = <<>>
  /\ upload = <<>>
  /\ extractionitem = <<>>
  /\ documentdraft = <<>>
  /\ next_id = 1
  /\ files = <<>>
  /\ uuids = 0
  /\ calls = 0
  /\ produced = 0
  /\ pc = [r \in Reqs |-> "idle"]
  /\ loc = [r \in Reqs |-> Idle]
  /\ resp = [r \in Reqs |-> NoResponse]
  /\ filename = <<>>
  /\ filetype = "unset"

\* The transport hands a request to the first slot that is not running a
\* handler; a slot keeps its last response until it takes the next request.
accepts(r) ==
  /\ pc[r] \in {"idle", "done", "failed"}
  /\ \A q \in 1..(r - 1) : pc[q] \notin {"idle", "done", "failed"}

\* ------------------------------------------------------------------------
\* POST /api/projects
\* ------------------------------------------------------------------------

create_project(name) ==
  /\ calls < MaxCalls
  /\ project' = create_document(project,
                  [name |-> name, code |-> None, description |-> None, revision |-> None],
                  next_id)
  /\ next_id' = next_id + 1
  /\ calls' = calls + 1
  /\ UNCHANGED <<upload, extractionitem, documentdraft, files, uuids, pc, loc, resp,
                 produced, filename, filetype>>

\* ------------------------------------------------------------------------
\* GET /api/projects, GET /api/uploads, GET /api/extractions
\* ------------------------------------------------------------------------

\* str(it["_id"])
str(id) == ToString(id)

\* for it in items: if "_id" in it: it["_id"] = str(it["_id"]); the items are
\* the handler's own copies of the records.
with_str_id(items) ==
  [i \in 1..Len(items) |->
     IF "_id" \in DOMAIN items[i] THEN [items[i] EXCEPT !._id = str(@)] ELSE items[i]]

\* filt = {"project_id": project_id} if project_id else {}
filt(project_id) ==
  IF project_id # None /\ project_id # "" THEN [project_id |-> project_id] ELSE <<>>

list_projects(r) ==
  /\ accepts(r)
  /\ calls < MaxCalls
  /\ LET items == with_str_id(get_documents(project, <<>>, 100))
     IN  resp' = [resp EXCEPT ![r] = [status |-> 200, body |-> [projects |-> items]]]
  /\ pc' = [pc EXCEPT ![r] = "done"]
  /\ loc' = [loc EXCEPT ![r] = [op |-> "list_projects"]]
  /\ calls' = calls + 1
  /\ UNCHANGED <<project, upload, extractionitem, documentdraft, next_id, files, uuids,
                 produced, filename, filetype>>

list_uploads(r, project_id) ==
  /\ accepts(r)
  /\ calls < MaxCalls
  /\ LET items == with_str_id(get_documents(upload, filt(project_id), 200))
     IN  resp' = [resp EXCEPT ![r] = [status |-> 200, body |-> [uploads |-> items]]]
  /\ pc' = [pc EXCEPT ![r] = "done"]
  /\ loc' = [loc EXCEPT ![r] = [op |-> "list_uploads", project_id |-> project_id]]
  /\ calls' = calls + 1
  /\ UNCHANGED <<project, upload, extractionitem, documentdraft, next_id, files, uuids,
                 produced, filename, filetype>>

\* The items listed taken out of the collection.
list_extractions_take(r, project_id) ==
  /\ accepts(r)
  /\ calls < MaxCalls
  /\ LET found == get_documents(extractionitem, filt(project_id), 1000)
     IN  /\ resp' = [resp EXCEPT ![r] =
                       [status |-> 200, body |-> [items |-> with_str_id(found)]]]
         /\ extractionitem' =
              SelectSeq(extractionitem,
                        LAMBDA it : \A i \in 1..Len(found) : found[i]._id # it._id)
  /\ pc' = [pc EXCEPT ![r] = "done"]
  /\ loc' = [loc EXCEPT ![r] = [op |-> "list_extractions", project_id |-> project_id]]
  /\ calls' = calls + 1
  /\ UNCHANGED <<project, upload, documentdraft, next_id, files, uuids,
                 produced, filename, filetype>>

list_extractions(r, project_id) ==
  /\ accepts(r)
  /\ calls < MaxCalls
  /\ LET items == with_str_id(get_documents(extractionitem, filt(project_id), 1000))
     IN  resp' = [resp EXCEPT ![r] = [status |-> 200, body |-> [items |-> items]]]
  /\ pc' = [pc EXCEPT ![r] = "done"]
  /\ loc' = [loc EXCEPT ![r] = [op |-> "list_extractions", project_id |-> project_id]]
  /\ calls' = calls + 1
  /\ UNCHANGED <<project, upload, extractionitem, documentdraft, next_id, files, uuids,
                 produced, filename, filetype>>

\* ------------------------------------------------------------------------
\* POST /api/uploads
\* ------------------------------------------------------------------------

\* Lines 113-116: the stored name is generated and the file opened for
\* writing, which creates it empty or truncates it. The open raises when the
\* directory of the path does not exist, and the request ends in a server
\* error.
upload_file(r, project_id, name, data) ==
  /\ accepts(r)
  /\ calls < MaxCalls
  /\ LET fid  == uuid4(uuids)
         path == os_path_join(STORAGE_DIR, safe_name(fid, name))
         l    == [op |-> "upload", project_id |-> project_id, filename |-> name,
                  data |-> data, path |-> path]
     IN  /\ loc' = [loc EXCEPT ![r] = l]
         /\ IF can_open(path)
            THEN /\ files' = put_file(files, path, <<>>)
                 /\ pc' = [pc EXCEPT ![r] = "upload_write"]
                 /\ resp' = [resp EXCEPT ![r] = NoResponse]
            ELSE /\ files' = files
                 /\ pc' = [pc EXCEPT ![r] = "failed"]
                 /\ resp' = [resp EXCEPT ![r] = [status |-> 500]]
  /\ uuids' = uuids + 1
  /\ calls' = calls + 1
  /\ UNCHANGED <<project, upload, extractionitem, documentdraft, next_id, produced, filename, filetype>>

\* Line 117: the request body is read and written to the file.
upload_file_write(r) ==
  /\ pc[r] = "upload_write"
  /\ files' = put_file(files, loc[r].path, loc[r].data)
  /\ pc' = [pc EXCEPT ![r] = "upload_record"]
  /\ UNCHANGED <<project, upload, extractionitem, documentdraft, next_id, uuids, calls,
                 loc, resp, produced, filename, filetype>>

\* The failure of the write caught and ignored: the handler goes on.
upload_file_write_ignored(r) ==
  /\ pc[r] = "upload_write"
  /\ \E n \in 0..(Len(loc[r].data) - 1) :
       files' = put_file(files, loc[r].path, SubSeq(loc[r].data, 1, n))
  /\ pc' = [pc EXCEPT ![r] = "upload_record"]
  /\ UNCHANGED <<project, upload, extractionitem, documentdraft, next_id, uuids, calls,
                 loc, resp, produced, filename, filetype>>

\* Line 117 raising (the read fails, the disk is full): some proper prefix of
\* the bytes is in the file and the request ends in a server error.
upload_file_write_fails(r) ==
  /\ pc[r] = "upload_write"
  /\ \E n \in 0..(Len(loc[r].data) - 1) :
       files' = put_file(files, loc[r].path, SubSeq(loc[r].data, 1, n))
  /\ pc' = [pc EXCEPT ![r] = "failed"]
  /\ resp' = [resp EXCEPT ![r] = [status |-> 500]]
  /\ UNCHANGED <<project, upload, extractionitem, documentdraft, next_id, uuids, calls,
                 loc, produced, filename, filetype>>

\* Lines 122-128: the Upload record of a request.
upload_doc(project_id, name, path, ftype, size_bytes) ==
  [project_id |-> project_id, filename |-> name, filepath |-> path,
   filetype |-> ftype, size_bytes |-> size_bytes]

\* Line 145: what the handler returns.
upload_response(l) ==
  [status |-> 200,
   body |-> [upload_id |-> l.upload_id, filetype |-> l.filetype, size |-> l.size_bytes]]

\* Lines 119-132: the filetype and the size are taken, the Upload record is
\* created and the filename scanned for tags; with no tag found the loop body
\* never runs and the handler returns (line 145).
upload_file_record(r) ==
  /\ pc[r] = "upload_record"
  /\ LET ftype      == guess_filetype(loc[r].filename)
         size_bytes == getsize(files, loc[r].path)
         doc        == upload_doc(loc[r].project_id, loc[r].filename, loc[r].path,
                                  ftype, size_bytes)
         found_tags == TAG_PATTERN_findall(upper(loc[r].filename))
         l          == [filetype |-> ftype, size_bytes |-> size_bytes,
                        upload_id |-> next_id, found_tags |-> found_tags, k |-> 1] @@ loc[r]
     IN  /\ upload' = create_document(upload, doc, next_id)
         /\ loc' = [loc EXCEPT ![r] = l]
         /\ IF found_tags = <<>>
            THEN /\ pc' = [pc EXCEPT ![r] = "done"]
                 /\ resp' = [resp EXCEPT ![r] = upload_response(l)]
            ELSE /\ pc' = [pc EXCEPT ![r] = "upload_items"]
                 /\ resp' = resp
  /\ next_id' = next_id + 1
  /\ UNCHANGED <<project, extractionitem, documentdraft, files, uuids, calls,
                 produced, filename, filetype>>

\* Lines 134-142: the ExtractionItem of one match; confidence 0.4 is kept as
\* the fraction <<4, 10>>.
extraction_item(project_id, upload_id, tag) ==
  [project_id |-> project_id, upload_id |-> upload_id, kind |-> "tag", label |-> tag,
   attributes |-> [source |-> "filename"], page |-> None, confidence |-> <<4, 10>>]

\* The failure of a create_document call of the loop compensated: the Upload
\* record of the request and the items created for it are taken out again.
upload_file_item_rollback(r) ==
  /\ pc[r] = "upload_items"
  /\ loc[r].k <= Len(loc[r].found_tags)
  /\ upload' = SelectSeq(upload, LAMBDA u : u._id # loc[r].upload_id)
  /\ extractionitem' = SelectSeq(extractionitem, LAMBDA it : it.upload_id # loc[r].upload_id)
  /\ pc' = [pc EXCEPT ![r] = "failed"]
  /\ resp' = [resp EXCEPT ![r] = [status |-> 500]]
  /\ UNCHANGED <<project, documentdraft, next_id, files, uuids, calls, loc,
                 produced, filename, filetype>>

\* Lines 133-143 with the create_document call of turn k raising (the store
\* is unreachable): nothing catches the exception, the request ends in a
\* server error and the handler does nothing more.
upload_file_item_fails(r) ==
  /\ pc[r] = "upload_items"
  /\ loc[r].k <= Len(loc[r].found_tags)
  /\ pc' = [pc EXCEPT ![r] = "failed"]
  /\ resp' = [resp EXCEPT ![r] = [status |-> 500]]
  /\ UNCHANGED <<project, upload, extractionitem, documentdraft, next_id, files, uuids,
                 calls, loc, produced, filename, filetype>>

\* Lines 133-145: one turn of the loop over found_tags; after the last one
\* the handler returns.
upload_file_item(r) ==
  /\ pc[r] = "upload_items"
  /\ loc[r].k <= Len(loc[r].found_tags)
  /\ extractionitem' = create_document(extractionitem,
                         extraction_item(loc[r].project_id, loc[r].upload_id,
                                         loc[r].found_tags[loc[r].k]),
                         next_id)
  /\ next_id' = next_id + 1
  /\ loc' = [loc EXCEPT ![r].k = @ + 1]
  /\ IF loc[r].k = Len(loc[r].found_tags)
     THEN /\ pc' = [pc EXCEPT ![r] = "done"]
          /\ resp' = [resp EXCEPT ![r] = upload_response(loc[r])]
     ELSE /\ pc' = pc
          /\ resp' = resp
  /\ UNCHANGED <<project, upload, documentdraft, files, uuids, calls, produced, filename, filetype>>

\* ------------------------------------------------------------------------
\* POST /api/documents/generate
\* ------------------------------------------------------------------------

\* it.get("kind") == kind and it.get("label"): the item is of the kind and has
\* a label that is neither absent nor the empty string.
labelled(it, kind) ==
  /\ "kind" \in DOMAIN it /\ it.kind = kind
  /\ "label" \in DOMAIN it /\ it.label # <<>>

\* The rows of a tag index without the test for an empty label.
tag_index_rows_any_label(items) ==
  LET tags == sorted({items[i].label :
                        i \in {j \in 1..Len(items) :
                                 /\ "kind" \in DOMAIN items[j] /\ items[j].kind = "tag"
                                 /\ "label" \in DOMAIN items[j]}})
  IN  [i \in 1..Len(tags) |-> [tag |-> tags[i]]]

\* Lines 174-175: the rows of a tag index.
tag_index_rows(items) ==
  LET tags == sorted({items[i].label : i \in {j \in 1..Len(items) : labelled(items[j], "tag")}})
  IN  [i \in 1..Len(tags) |-> [tag |-> tags[i]]]

\* The rows of a bill of materials counting the labelled items of every kind.
bom_rows_any_kind(items) ==
  LET any   == {j \in 1..Len(items) : "label" \in DOMAIN items[j] /\ items[j].label # <<>>}
      parts == [l \in {items[j].label : j \in any} |->
                  Cardinality({j \in any : items[j].label = l})]
      keys  == sorted(DOMAIN parts)
  IN  [i \in 1..Len(keys) |-> [item |-> keys[i], qty |-> parts[keys[i]]]]

\* Lines 188-192: parts maps each label of a "bom" item to the number of such
\* items (the loop adds one per item); the rows follow sorted(parts.items()).
bom_rows(items) ==
  LET bom   == {j \in 1..Len(items) : labelled(items[j], "bom")}
      parts == [l \in {items[j].label : j \in bom} |->
                  Cardinality({j \in bom : items[j].label = l})]
      keys  == sorted(DOMAIN parts)
  IN  [i \in 1..Len(keys) |-> [item |-> keys[i], qty |-> parts[keys[i]]]]

Unsupported == [status_code |-> 400, detail |-> "Unsupported doc_type"]

\* The draft built when the last branch is taken for every other doc_type
\* instead of raising.
draft_for_default_summary(project_id, doc_type, items) ==
  IF doc_type = "tag-index" THEN
    LET rows == tag_index_rows(items)
    IN  [project_id |-> project_id, doc_type |-> "tag-index",
         title |-> "Tag Index (Draft)", items |-> rows, meta |-> [count |-> Len(rows)]]
  ELSE IF doc_type = "bom" THEN
    LET rows == bom_rows(items)
    IN  [project_id |-> project_id, doc_type |-> "bom",
         title |-> "Bill of Materials (Draft)", items |-> rows,
         meta |-> [line_items |-> Len(rows)]]
  ELSE
    [project_id |-> project_id, doc_type |-> "summary",
     title |-> "Transmittal Summary (Draft)", items |-> <<>>, meta |-> <<>>]

\* Lines 173-214: the draft built for a doc_type, or the HTTPException raised.
draft_for(project_id, doc_type, items) ==
  IF doc_type = "tag-index" THEN
    LET rows == tag_index_rows(items)
    IN  [project_id |-> project_id, doc_type |-> "tag-index",
         title |-> "Tag Index (Draft)", items |-> rows, meta |-> [count |-> Len(rows)]]
  ELSE IF doc_type = "bom" THEN
    LET rows == bom_rows(items)
    IN  [project_id |-> project_id, doc_type |-> "bom",
         title |-> "Bill of Materials (Draft)", items |-> rows,
         meta |-> [line_items |-> Len(rows)]]
  ELSE IF doc_type = "summary" THEN
    [project_id |-> project_id, doc_type |-> "summary",
     title |-> "Transmittal Summary (Draft)", items |-> <<>>, meta |-> <<>>]
  ELSE Unsupported

\* Lines 171-214 up to the create_document call: the project's items are
\* fetched and the draft built; an unsupported doc_type ends the request with
\* status 400.
generate_document(r, project_id, doc_type) ==
  /\ accepts(r)
  /\ calls < MaxCalls
  /\ LET items == get_documents(extractionitem, [project_id |-> project_id], GenLimit)
         draft == draft_for(project_id, doc_type, items)
     IN  IF draft = Unsupported
         THEN /\ pc' = [pc EXCEPT ![r] = "failed"]
              /\ resp' = [resp EXCEPT ![r] = [status |-> 400, detail |-> Unsupported.detail]]
              /\ loc' = [loc EXCEPT ![r] =
                           [op |-> "generate", project_id |-> project_id,
                            doc_type |-> doc_type]]
         ELSE /\ pc' = [pc EXCEPT ![r] = "generate_create"]
              /\ resp' = [resp EXCEPT ![r] = NoResponse]
              /\ loc' = [loc EXCEPT ![r] =
                           [op |-> "generate", project_id |-> project_id,
                            doc_type |-> doc_type, draft |-> draft]]
  /\ calls' = calls + 1
  /\ UNCHANGED <<project, upload, extractionitem, documentdraft, next_id, files, uuids,
                 produced, filename, filetype>>

\* The draft stored in place of an earlier draft of the same project and
\* doc_type, when there is one.
store_draft_upsert(drafts, draft, id) ==
  LET same == {i \in 1..Len(drafts) : /\ drafts[i].project_id = draft.project_id
                                      /\ drafts[i].doc_type = draft.doc_type}
  IN  IF same = {} THEN create_document(drafts, draft, id)
      ELSE [drafts EXCEPT ![CHOOSE i \in same : TRUE] = [_id |-> id] @@ draft]

\* Lines 183, 200, 211: did = create_document("documentdraft", draft).
store_draft(drafts, draft, id) == create_document(drafts, draft, id)

\* Lines 183-184, 200-201, 211-212: the draft is stored and returned with its id.
generate_document_create(r) ==
  /\ pc[r] = "generate_create"
  /\ documentdraft' = store_draft(documentdraft, loc[r].draft, next_id)
  /\ resp' = [resp EXCEPT ![r] =
                [status |-> 200,
                 body |-> [document_id |-> next_id, document |-> loc[r].draft]]]
  /\ next_id' = next_id + 1
  /\ pc' = [pc EXCEPT ![r] = "done"]
  /\ UNCHANGED <<project, upload, extractionitem, files, uuids, calls, loc,
                 produced, filename, filetype>>

\* ------------------------------------------------------------------------
\* The other users of the database
\* ------------------------------------------------------------------------

\* What other producers have stored before the first request: ExtractionItems
\* of a kind generate_document does not read, without a label or with an empty
\* one, and items of project p2.
Seed ==
  << [_id |-> 1, project_id |-> "p1", upload_id |-> 0, kind |-> "text", label |-> LabelB7],
     [_id |-> 2, project_id |-> "p1", upload_id |-> 0, kind |-> "bom"],
     [_id |-> 3, project_id |-> "p1", upload_id |-> 0, kind |-> "tag", label |-> <<>>],
     [_id |-> 4, project_id |-> "p2", upload_id |-> 0, kind |-> "tag", label |-> LabelB10],
     [_id |-> 5, project_id |-> "p2", upload_id |-> 0, kind |-> "bom", label |-> LabelB7] >>

\* What they store while requests are served, in this order.
Produced ==
  << [project_id |-> "p1", upload_id |-> 0, kind |-> "bom", label |-> LabelB7],
     [project_id |-> "p1", upload_id |-> 0, kind |-> "tag", label |-> LabelV203],
     [project_id |-> "p1", upload_id |-> 0, kind |-> "tag", label |-> LabelP101],
     [project_id |-> "p1", upload_id |-> 0, kind |-> "bom", label |-> LabelB10],
     [project_id |-> "p1", upload_id |-> 0, kind |-> "tag", label |-> LabelP101] >>

\* Another producer stores an ExtractionItem.
add_extraction_item(item) ==
  /\ produced < Len(Produced)
  /\ item = Produced[produced + 1]
  /\ extractionitem' = create_document(extractionitem, item, next_id)
  /\ next_id' = next_id + 1
  /\ produced' = produced + 1
  /\ UNCHANGED <<project, upload, documentdraft, files, uuids, calls, pc, loc, resp,
                 filename, filetype>>

\* ------------------------------------------------------------------------
\* Specifications
\* ------------------------------------------------------------------------

\* The API serving concurrent requests, on a database and an upload directory
\* that start empty.
Next ==
  \/ \E n \in ProjectNames : create_project(n)
  \/ \E r \in Reqs, u \in ApiUploads : upload_file(r, u[1], u[2], u[3])
  \/ \E r \in Reqs : upload_file_write(r)
  \/ \E r \in Reqs : upload_file_write_fails(r)
  \/ \E r \in Reqs : upload_file_record(r)
  \/ \E r \in Reqs : upload_file_item(r)
  \/ \E r \in Reqs, g \in Generations : generate_document(r, g[1], g[2])
  \/ \E r \in Reqs : generate_document_create(r)
  \/ \E r \in Reqs : list_projects(r)
  \/ \E r \in Reqs, p \in ListProjectIds : list_uploads(r, p)
  \/ \E r \in Reqs, p \in ListProjectIds : list_extractions(r, p)

Spec == Init /\ [][Next]_vars

\* The upload handler alone, with more kinds of upload.
NextUpload ==
  \/ \E r \in Reqs, u \in Uploads : upload_file(r, u[1], u[2], u[3])
  \/ \E r \in Reqs : upload_file_write(r)
  \/ \E r \in Reqs : upload_file_write_fails(r)
  \/ \E r \in Reqs : upload_file_record(r)
  \/ \E r \in Reqs : upload_file_item(r)

SpecUpload == Init /\ [][NextUpload]_vars

\* The upload handler on a store whose create_document calls can fail while
\* the ExtractionItems of an upload are created.
NextUploadFaulty ==
  \/ NextUpload
  \/ \E r \in Reqs : upload_file_item_fails(r)

SpecUploadFaulty == Init /\ [][NextUploadFaulty]_vars

\* A database that holds GenLimit ExtractionItems of project p1, all of them
\* "bom" items labelled B7: one more and a fetch of the project is cut short.
Backlog ==
  [i \in 1..GenLimit |->
     [_id |-> i, project_id |-> "p1", upload_id |-> 0, kind |-> "bom", label |-> LabelB7]]

\* The document generator serving one request at a time on a database other
\* producers write to; the database holds the seed, or the backlog.
InitGen ==
  /\ extractionitem \in {Seed, Backlog}
  /\ next_id = Len(extractionitem) + 1
  /\ project = <<>>
  /\ upload = <<>>
  /\ documentdraft = <<>>
  /\ files = <<>>
  /\ uuids = 0
  /\ calls = 0
  /\ produced = 0
  /\ pc = [r \in Reqs |-> "idle"]
  /\ loc = [r \in Reqs |-> Idle]
  /\ resp = [r \in Reqs |-> NoResponse]
  /\ filename = <<>>
  /\ filetype = "unset"

\* The generation requests made of it.
BacklogGenerations == { <<"p1", "tag-index">>, <<"p1", "bom">>, <<"p2", "bom">> }

NextGen ==
  \/ \E i \in 1..Len(Produced) : add_extraction_item(Produced[i])
  \/ \E g \in BacklogGenerations : generate_document(1, g[1], g[2])
  \/ generate_document_create(1)

SpecGen == InitGen /\ [][NextGen]_vars

\* guess_filetype called on its own, on each of the filenames.
InitFiletype ==
  /\ filename \in FiletypeInputs
  /\ filetype = "unset"
  /\ project = <<>>
  /\ upload = <<>>
  /\ extractionitem = <<>>
  /\ documentdraft = <<>>
  /\ next_id = 1
  /\ files = <<>>
  /\ uuids = 0
  /\ calls = 0
  /\ produced = 0
  /\ pc = [r \in Reqs |-> "idle"]
  /\ loc = [r \in Reqs |-> Idle]
  /\ resp = [r \in Reqs |-> NoResponse]

classify ==
  /\ filetype = "unset"
  /\ filetype' = guess_filetype(filename)
  /\ UNCHANGED <<project, upload, extractionitem, documentdraft, next_id, files, uuids,
                 calls, produced, pc, loc, resp, filename>>

SpecFiletype == InitFiletype /\ [][classify]_vars

\* ------------------------------------------------------------------------
\* Properties of the document generator
\* ------------------------------------------------------------------------

\* The positions of the project's records in the extractionitem collection.
ItemsOf(p) == {i \in 1..Len(extractionitem) : extractionitem[i].project_id = p}

\* The distinct non-empty labels of the project's items of a kind.
LabelsOf(p, kind) ==
  { extractionitem[i].label :
      i \in { j \in ItemsOf(p) : /\ extractionitem[j].kind = kind
                                 /\ "label" \in DOMAIN extractionitem[j]
                                 /\ extractionitem[j].label # <<>> } }

\* How many of the project's items of a kind carry the label.
CountOf(p, kind, l) ==
  Cardinality({ j \in ItemsOf(p) : /\ extractionitem[j].kind = kind
                                   /\ "label" \in DOMAIN extractionitem[j]
                                   /\ extractionitem[j].label = l })

\* The step in which slot r fetches the items and builds its draft.
Builds(r) == pc[r] # "generate_create" /\ pc'[r] = "generate_create"

\* The step in which slot r stores its draft.
Stores(r) == pc[r] = "generate_create" /\ pc'[r] = "done"

\* The record the step appends to documentdraft is the draft slot r built.
StoredAsBuilt(r) ==
  /\ Len(documentdraft') = Len(documentdraft) + 1
  /\ documentdraft'[Len(documentdraft')] = [_id |-> next_id] @@ loc[r].draft

\* The draft is the tag index of project p over the collection as it is: one
\* row per distinct label, ascending, and the count of the rows.
IsTagIndex(d, p) ==
  LET L == LabelsOf(p, "tag")
  IN  /\ d.project_id = p /\ d.doc_type = "tag-index"
      /\ Len(d.items) = Cardinality(L)
      /\ {d.items[i] : i \in 1..Len(d.items)} = {[tag |-> l] : l \in L}
      /\ \A i \in 1..(Len(d.items) - 1) : StrLess(d.items[i].tag, d.items[i + 1].tag)
      /\ d.meta = [count |-> Cardinality(L)]

\* C1: a "tag-index" request for a project that has at most 5000
\* ExtractionItems builds, and stores, a draft with exactly one row per
\* distinct non-empty label of the project's "tag" items, in ascending order
\* without repeats, and meta.count the number of those labels; items of other
\* kinds, other projects or without a label give no row.
C1_TagIndex ==
  [][\A r \in Reqs :
       /\ ( /\ Builds(r)
            /\ loc'[r].doc_type = "tag-index"
            /\ Cardinality(ItemsOf(loc'[r].project_id)) <= GenLimit )
          => IsTagIndex(loc'[r].draft, loc'[r].project_id)
       /\ (Stores(r) /\ loc[r].doc_type = "tag-index") => StoredAsBuilt(r)]_vars

\* A tag index [P-101, V203] with count 2 has been stored for p1, whose tag
\* items are labelled V203, P-101, P-101 in that order.
C1_Witness ==
  /\ pc[1] = "done" /\ loc[1].op = "generate" /\ loc[1].doc_type = "tag-index"
  /\ resp[1].body.document.items = <<[tag |-> LabelP101], [tag |-> LabelV203]>>
  /\ resp[1].body.document.meta.count = 2
  /\ produced = Len(Produced)
  /\ \E i \in 1..Len(documentdraft) : documentdraft[i].items = resp[1].body.document.items

\* The draft is the bill of materials of project p over the collection as it
\* is: one row per distinct label with its number of items, ascending by
\* label, and line_items the number of rows.
IsBom(d, p) ==
  LET L == LabelsOf(p, "bom")
  IN  /\ d.project_id = p /\ d.doc_type = "bom"
      /\ Len(d.items) = Cardinality(L)
      /\ {d.items[i] : i \in 1..Len(d.items)} =
           {[item |-> l, qty |-> CountOf(p, "bom", l)] : l \in L}
      /\ \A i \in 1..Len(d.items) : d.items[i].qty >= 1
      /\ \A i \in 1..(Len(d.items) - 1) : StrLess(d.items[i].item, d.items[i + 1].item)
      /\ d.meta = [line_items |-> Len(d.items)]
      /\ L = {} => d.items = <<>> /\ d.meta.line_items = 0

\* C8 (as amended): a "bom" request for a project that has at most 5000
\* ExtractionItems builds, and stores, a draft with exactly one row
\* {item: l, qty: n} per distinct non-empty label l of the project's "bom"
\* items, n the number of those items labelled l (at least 1), rows ascending
\* by label and meta.line_items the number of rows; without "bom" items the
\* rows are empty and line_items is 0.
C8_Bom ==
  [][\A r \in Reqs :
       /\ ( /\ Builds(r)
            /\ loc'[r].doc_type = "bom"
            /\ Cardinality(ItemsOf(loc'[r].project_id)) <= GenLimit )
          => IsBom(loc'[r].draft, loc'[r].project_id)
       /\ (Stores(r) /\ loc[r].doc_type = "bom") => StoredAsBuilt(r)]_vars

\* C8 as stated, for every project whatever the number of its items.
C8_BomAnySize ==
  [][\A r \in Reqs :
       (Builds(r) /\ loc'[r].doc_type = "bom")
          => IsBom(loc'[r].draft, loc'[r].project_id)]_vars

\* A bill of materials [B10 x 1, B7 x 1] has been stored for p1, whose "bom"
\* items were stored B7 first.
C8_Witness ==
  /\ pc[1] = "done" /\ loc[1].op = "generate" /\ loc[1].doc_type = "bom"
  /\ loc[1].project_id = "p1"
  /\ resp[1].body.document.items =
       <<[item |-> LabelB10, qty |-> 1], [item |-> LabelB7, qty |-> 1]>>
  /\ resp[1].body.document.meta.line_items = 2
  /\ \E i \in 1..Len(documentdraft) : documentdraft[i].items = resp[1].body.document.items

\* ------------------------------------------------------------------------
\* Properties of the API as a whole
\* ------------------------------------------------------------------------

Supported == {"tag-index", "bom", "summary"}

\* C2: a generate_document call with a doc_type other than "tag-index", "bom"
\* or "summary" ends with status 400 and leaves every collection, and the
\* upload directory, as it was.
C2_UnsupportedDocType ==
  [][\A r \in Reqs, g \in Generations :
       (g[2] \notin Supported /\ generate_document(r, g[1], g[2]))
          => /\ pc'[r] = "failed"
             /\ resp'[r].status = 400
             /\ store' = store
             /\ files' = files]_vars

\* A request for an unsupported doc_type has been refused while the upload
\* and extractionitem collections held records.
C2_Witness ==
  \E r \in Reqs :
    /\ pc[r] = "failed" /\ loc[r].op = "generate" /\ loc[r].doc_type \notin Supported
    /\ resp[r].status = 400
    /\ upload # <<>> /\ extractionitem # <<>>
    /\ documentdraft = <<>>

\* No two DocumentDraft records share an identifier.
DistinctDrafts ==
  \A i, j \in 1..Len(documentdraft) :
    i # j => documentdraft[i]._id # documentdraft[j]._id

\* C3: the step that ends a successful generate_document call appends exactly
\* one record to documentdraft and changes none of those there, the response
\* carries that record's id and content, which is the draft of the requested
\* project and doc_type; no other step touches documentdraft, and the drafts
\* stay separate records.
C3_OneNewDraft ==
  /\ []DistinctDrafts
  /\ [][/\ \A r \in Reqs :
             Stores(r) =>
               /\ Len(documentdraft') = Len(documentdraft) + 1
               /\ SubSeq(documentdraft', 1, Len(documentdraft)) = documentdraft
               /\ resp'[r].status = 200
               /\ documentdraft'[Len(documentdraft')] =
                    [_id |-> resp'[r].body.document_id] @@ resp'[r].body.document
               /\ resp'[r].body.document.project_id = loc[r].project_id
               /\ resp'[r].body.document.doc_type = loc[r].doc_type
               /\ loc[r].doc_type \in Supported
        /\ (\A r \in Reqs : ~Stores(r)) => documentdraft' = documentdraft]_vars

\* Two concurrent requests for the same project and doc_type have both
\* succeeded, and the collection holds their two drafts.
C3_Witness ==
  /\ pc[1] = "done" /\ pc[2] = "done"
  /\ loc[1].op = "generate" /\ loc[2].op = "generate"
  /\ loc[1].project_id = loc[2].project_id /\ loc[1].doc_type = loc[2].doc_type
  /\ Len(documentdraft) = 2
  /\ {documentdraft[1]._id, documentdraft[2]._id} =
       {resp[1].body.document_id, resp[2].body.document_id}
  /\ resp[1].body.document_id # resp[2].body.document_id

\* ------------------------------------------------------------------------
\* Properties of the upload handler
\* ------------------------------------------------------------------------

\* Slot r runs, or has run, an upload whose bytes have been written.
Written(r) == loc[r].op = "upload" /\ pc[r] \in {"upload_record", "upload_items", "done"}

\* Slot r runs, or has run, an upload whose Upload record has been created.
Recorded(r) == loc[r].op = "upload" /\ pc[r] \in {"upload_items", "done"}

\* The positions of the Upload records stored at a path.
RecordsAt(path) == {i \in 1..Len(upload) : upload[i].filepath = path}

\* The uploads in the slots have paths of their own, every upload whose write
\* has succeeded finds its own bytes at its path, and an Upload record's
\* filepath is the path of the request that created it and of no other record.
OwnBytes ==
  /\ \A r, q \in Reqs :
       (r # q /\ loc[r].op = "upload" /\ loc[q].op = "upload") => loc[r].path # loc[q].path
  /\ \A r \in Reqs :
       Written(r) => /\ loc[r].path \in DOMAIN files
                     /\ files[loc[r].path] = loc[r].data
  /\ \A r \in Reqs :
       Recorded(r) => \E i \in 1..Len(upload) :
                        /\ upload[i]._id = loc[r].upload_id
                        /\ upload[i].filepath = loc[r].path
                        /\ upload[i].size_bytes = Len(loc[r].data)
                        /\ RecordsAt(loc[r].path) = {i}
  /\ \A i, j \in 1..Len(upload) : i # j => upload[i].filepath # upload[j].filepath

\* C4: two upload requests, also two that run at once for the same project
\* and filename, never share a storage path; so the bytes at the filepath of
\* an Upload record are those of the request that created it, and no later
\* step of any request changes them.
C4_DistinctPaths ==
  /\ []OwnBytes
  /\ [][\A i \in 1..Len(upload) :
          /\ upload[i].filepath \in DOMAIN files'
          /\ files'[upload[i].filepath] = files[upload[i].filepath]]_vars

\* Two uploads of the same filename to the same project, with different
\* bytes, have run at once and both have written.
C4_Witness ==
  /\ Written(1) /\ Written(2)
  /\ loc[1].project_id = loc[2].project_id
  /\ loc[1].filename = loc[2].filename
  /\ loc[1].data # loc[2].data
  /\ pc[1] = "upload_items" /\ pc[2] = "upload_record"

\* An upload that has not come to create its Upload record has none: no
\* record is stored at its path.
NoRecordBeforeWrite ==
  \A r \in Reqs :
    (loc[r].op = "upload" /\ pc[r] \in {"upload_write", "upload_record", "failed"})
      => RecordsAt(loc[r].path) = {}

\* C5: when the write of the uploaded bytes fails, the request ends with a
\* server error, and it has created no Upload record and no ExtractionItem:
\* the failing step leaves both collections as they are, and no record exists
\* for the request.
C5_FailedWrite ==
  /\ []NoRecordBeforeWrite
  /\ [][\A r \in Reqs :
          /\ upload_file_write_fails(r)
               => /\ pc'[r] = "failed"
                  /\ resp'[r].status = 500
                  /\ upload' = upload
                  /\ extractionitem' = extractionitem
          /\ (pc'[r] = "failed" /\ loc'[r].op = "upload" /\ <<pc[r], loc[r]>> # <<pc'[r], loc'[r]>>)
               => /\ resp'[r].status = 500
                  /\ upload' = upload
                  /\ extractionitem' = extractionitem]_vars

\* An upload has failed in its write, leaving a file that lacks bytes of the
\* request, while the collections hold the records of another upload.
C5_Witness ==
  \E r \in Reqs :
    /\ pc[r] = "failed" /\ loc[r].op = "upload"
    /\ loc[r].path \in DOMAIN files
    /\ files[loc[r].path] # loc[r].data
    /\ upload # <<>> /\ extractionitem # <<>>

\* The matches of TAG_PATTERN in the upper-cased filenames the uploads use,
\* as re.findall returns them.
ExpectedTags(name) ==
  IF name = NameTags THEN <<LabelV203, LabelP101, LabelP101>>
  ELSE IF name = NameNoTag THEN <<>>
  ELSE TAG_PATTERN_findall(upper(name))

\* The ExtractionItems that refer to an Upload record, in the order stored.
ItemsOfUpload(uid) == SelectSeq(extractionitem, LAMBDA it : it.upload_id = uid)

\* C6: a successful upload of filename f to project p has created exactly one
\* Upload record, and one ExtractionItem per match of the pattern in the
\* upper-cased f, repeats included and in order of appearance, each with the
\* id of that Upload record, project p, kind "tag", the match as label,
\* attributes {"source": "filename"}, confidence 0.4 and no page; a filename
\* without a match gives the Upload record and no ExtractionItem.
C6_UploadItems ==
  \A r \in Reqs :
    (pc[r] = "done" /\ loc[r].op = "upload") =>
      LET uid  == resp[r].body.upload_id
          mine == ItemsOfUpload(uid)
          tags == ExpectedTags(loc[r].filename)
      IN  /\ resp[r].status = 200
          /\ Cardinality({i \in 1..Len(upload) : upload[i]._id = uid}) = 1
          /\ Cardinality(RecordsAt(loc[r].path)) = 1
          /\ \A i \in 1..Len(upload) :
               upload[i]._id = uid =>
                 /\ upload[i].project_id = loc[r].project_id
                 /\ upload[i].filename = loc[r].filename
                 /\ upload[i].filepath = loc[r].path
                 /\ upload[i].filetype = resp[r].body.filetype
                 /\ upload[i].size_bytes = resp[r].body.size
          /\ Len(mine) = Len(tags)
          /\ \A k \in 1..Len(mine) :
               /\ DOMAIN mine[k] = {"_id", "project_id", "upload_id", "kind", "label",
                                     "attributes", "page", "confidence"}
               /\ mine[k].project_id = loc[r].project_id
               /\ mine[k].upload_id = uid
               /\ mine[k].kind = "tag"
               /\ mine[k].label = tags[k]
               /\ mine[k].attributes = [source |-> "filename"]
               /\ mine[k].page = None
               /\ mine[k].confidence = <<4, 10>>
          /\ \A k \in 1..(Len(mine) - 1) : mine[k]._id < mine[k + 1]._id

\* Both kinds of upload have succeeded side by side: one whose filename has
\* three matches, the last two equal, and one whose filename has none.
C6_Witness ==
  \E r, q \in Reqs :
    /\ pc[r] = "done" /\ loc[r].op = "upload" /\ loc[r].filename = NameTags
    /\ Len(ItemsOfUpload(resp[r].body.upload_id)) = 3
    /\ pc[q] = "done" /\ loc[q].op = "upload" /\ loc[q].filename = NameNoTag
    /\ ItemsOfUpload(resp[q].body.upload_id) = <<>>
    /\ Len(upload) = 2

\* The upload in slot r has failed after its Upload record was created.
FailedAfterRecord(r) ==
  loc[r].op = "upload" /\ pc[r] = "failed" /\ "upload_id" \in DOMAIN loc[r]

\* Collection c is kept in collection d: d holds every record of c, unchanged
\* and in place, and possibly more after them.
Kept(c, d) == Len(c) <= Len(d) /\ SubSeq(d, 1, Len(c)) = c

\* An upload that failed in turn k of its loop has its Upload record and the
\* ExtractionItems of its first k - 1 matches in the store, and no others.
PartialUploadStays ==
  \A r \in Reqs :
    FailedAfterRecord(r) =>
      LET mine == ItemsOfUpload(loc[r].upload_id)
      IN  /\ resp[r].status = 500
          /\ Cardinality({i \in 1..Len(upload) : upload[i]._id = loc[r].upload_id}) = 1
          /\ Len(mine) = loc[r].k - 1
          /\ Len(mine) < Len(loc[r].found_tags)
          /\ \A i \in 1..Len(mine) : mine[i].label = loc[r].found_tags[i]

\* C10: upload_file has no rollback. When the creation of the k-th
\* ExtractionItem of an upload fails the request fails, and the Upload record
\* and the first k - 1 ExtractionItems it created stay in the store: the
\* failing step removes nothing, and no later step of any request does.
C10_NoRollback ==
  /\ []PartialUploadStays
  /\ [][/\ \A r \in Reqs :
             upload_file_item_fails(r)
               => /\ pc'[r] = "failed"
                  /\ resp'[r].status = 500
                  /\ upload' = upload
                  /\ extractionitem' = extractionitem
        /\ Kept(upload, upload')
        /\ Kept(extractionitem, extractionitem')]_vars

\* An upload with three matches has failed on its second item: its Upload
\* record is there with one of three items, while another upload has failed
\* on its first item and has an Upload record with none.
C10_Witness ==
  \E r, q \in Reqs :
    /\ FailedAfterRecord(r) /\ loc[r].k = 2
    /\ Len(loc[r].found_tags) = 3
    /\ Len(ItemsOfUpload(loc[r].upload_id)) = 1
    /\ FailedAfterRecord(q) /\ loc[q].k = 1
    /\ ItemsOfUpload(loc[q].upload_id) = <<>>
    /\ Len(upload) = 2

\* ------------------------------------------------------------------------
\* Properties of the store
\* ------------------------------------------------------------------------

\* Slot r takes a list request in this step.
Lists(r) ==
  \/ list_projects(r)
  \/ \E p \in ListProjectIds : list_uploads(r, p)
  \/ \E p \in ListProjectIds : list_extractions(r, p)

\* C9: every lifecycle is create-only. Across every interleaving of the API
\* operations each step keeps every Project, Upload, ExtractionItem and
\* DocumentDraft record with the field values it has, so no operation deletes
\* or updates a record, and a list operation leaves the four collections as
\* they are.
C9_CreateOnly ==
  [][/\ Kept(project, project')
     /\ Kept(upload, upload')
     /\ Kept(extractionitem, extractionitem')
     /\ Kept(documentdraft, documentdraft')
     /\ \A r \in Reqs : Lists(r) => store' = store]_vars

\* An upload has stored its records and a list of the extractions has
\* returned them, with their identifiers as strings.
C9_Witness ==
  \E r \in Reqs :
    /\ pc[r] = "done" /\ loc[r].op = "list_extractions"
    /\ Len(resp[r].body.items) = 3
    /\ resp[r].body.items[1]._id = str(extractionitem[1]._id)
    /\ upload # <<>>
    /\ Len(extractionitem) = 3

\* ------------------------------------------------------------------------
\* Properties of guess_filetype
\* ------------------------------------------------------------------------

FileTypes == {"pdf", "dxf", "dwg", "tiff", "step", "ifc", "obj", "nwd", "nwc", "other"}

HasDot(name) == \E i \in 1..Len(name) : name[i] = "."

\* What follows the last dot of a filename that has one.
ExtensionOf(name) ==
  LET last == CHOOSE i \in 1..Len(name) : name[i] = "." /\ \A j \in (i + 1)..Len(name) : name[j] # "."
  IN  SubSeq(name, last + 1, Len(name))

KnownExtension(ext) == \E e \in mapping : e[1] = lower(ext)

\* C7, as stated: guess_filetype returns a value of the enumeration, and
\* "other" whenever the extension is unknown or missing, so for every filename
\* without a dot.
C7_OtherWithoutExtension ==
  filetype # "unset" =>
    /\ filetype \in FileTypes
    /\ (~HasDot(filename) \/ ~KnownExtension(ExtensionOf(filename))) => filetype = "other"

====
